---- MODULE Spec2Model ----
(***************************************************************************)
(* A model of fixedrec: the record transcoder of cli.main and the layout   *)
(* selector cli.choose_struct.                                             *)
(*                                                                         *)
(* Bytes are natural numbers, byte strings are sequences of bytes, text    *)
(* strings are sequences of one-character strings.                         *)
(***************************************************************************)
EXTENDS Integers, Sequences, FiniteSets, TLC

\* ------------------------------------------------------------------ bounds

\* Longest input file, in bytes.
MaxInputLen == 6
\* Longest input terminator, in bytes.
MaxTermLen == 2
\* Largest total field length F of a layout.
MaxTotalLen == 2
\* Largest --max-rows value.
MaxRows == 1
\* Most layouts in a config handed to choose_struct.
MaxStructs == 2
\* Longest input path handed to choose_struct, in characters.
MaxPathLen == 3

\* The bytes an input file and an input terminator are made of: "A" and LF.
InputBytes == {65, 10}

\* --------------------------------------------------------------- helpers

Min(a, b) == IF a < b THEN a ELSE b

SeqsUpTo(S, n) == UNION {[1..k -> S] : k \in 0..n}

Range(s) == {s[i] : i \in DOMAIN s}

RECURSIVE SumLens(_)
\* sum(length for _, length in fields)
SumLens(fs) == IF fs = <<>> THEN 0 ELSE fs[1][2] + SumLens(Tail(fs))

RECURSIVE Concat(_)
\* The concatenation of a sequence of byte strings.
Concat(ss) == IF ss = <<>> THEN <<>> ELSE ss[1] \o Concat(Tail(ss))

RECURSIVE Join(_, _)
\* bytes.join / str.join: the parts with sep between adjacent parts.
Join(sep, parts) ==
    IF parts = <<>> THEN <<>>
    ELSE IF Len(parts) = 1 THEN parts[1]
    ELSE parts[1] \o sep \o Join(sep, Tail(parts))

\* ---------------------------------------------------------- byte strings

CRLF == <<13, 10>>

\* --sep's default "\\t", as parse_bytes_from_arg decodes it.
sep_bytes == <<9>>

\* --out-term's default "crlf", as parse_term resolves it.
out_term_bytes == CRLF

\* A digit function that writes the letter digits in upper case.
HexDigit_Upper(n) == IF n < 10 THEN 48 + n ELSE 55 + n

\* "0123456789abcdef"[n] as a byte
HexDigit(n) == IF n < 10 THEN 48 + n ELSE 87 + n

\* f"{b:02x}"
Hex2(b) == <<HexDigit(b \div 16), HexDigit(b % 16)>>

\* escape_bytes raises ValueError for a mode that is neither none nor hex.
EscapeRaises(mode) == mode # "none" /\ mode # "hex"

\* escape_bytes(bs, mode, prefix) for the modes it accepts.
escape_bytes(bs, mode, prefix) ==
    IF mode = "none" THEN bs
    ELSE IF prefix = <<>>
         THEN Join(<<32>>, [i \in DOMAIN bs |-> Hex2(bs[i])])
         ELSE Concat([i \in DOMAIN bs |-> prefix \o Hex2(bs[i])])

\* ------------------------------------------------------------- layouts

FieldNames == <<"A", "B", "C", "D", "E", "F">>

\* The field lists parse_structs_config can return with total length <= MaxTotalLen:
\* at least one field, every length > 0.
FieldLists ==
    {fs \in UNION {[1..n -> {<<FieldNames[i], l>> : i \in 1..Len(FieldNames), l \in 1..MaxTotalLen}]
                     : n \in 1..MaxTotalLen} :
        /\ \A i \in DOMAIN fs : fs[i][1] = FieldNames[i]
        /\ SumLens(fs) <= MaxTotalLen}

\* ------------------------------------------------------------------ state

VARIABLES
    written,          \* the struct blocks the config file's author wrote
    config,           \* the text of the config file
    input,            \* the bytes of the input file
    structs,          \* the layouts parse_structs_config returned
    want_name,        \* args.struct_name
    input_path,       \* args.input
    sd,               \* the layout choose_struct returned
    in_term_bytes,    \* parse_term(args.in_term)
    lenient,          \* args.lenient
    max_rows,         \* args.max_rows
    header_structs,   \* args.header_structs
    dump_layout,      \* args.dump_layout
    escape,           \* <<args.escape, args.prefix>>
    pc,               \* where the program is: "start", "loop", "done", ...
    pos,              \* rf's read position
    out,              \* the bytes written to wf
    processed,        \* records written
    warnings,         \* the warning counter
    row_no,           \* rows accepted
    stderr,           \* the messages printed to stderr, in order
    exit_code         \* the process's exit status once pc = "done"

vars == <<written, config, input, structs, want_name, input_path, sd, in_term_bytes, lenient,
          max_rows, header_structs, dump_layout, escape, pc, pos, out,
          processed, warnings, row_no, stderr, exit_code>>

\* What main reads and never assigns once a layout is chosen.
args == <<written, config, input, structs, want_name, input_path, sd, in_term_bytes, lenient,
          max_rows, header_structs, dump_layout, escape>>

StructDef(name, fields, exts) == [name |-> name, fields |-> fields, exts |-> exts]

\* An optional argument: None, or a given text.
None == [given |-> FALSE, text |-> <<>>]

Some(t) == [given |-> TRUE, text |-> t]

\* A second layout of the config, which the header line names too.
OtherStruct == StructDef(<<"B">>, <<<<"A", 1>>>>, <<>>)

\* <<args.escape, args.prefix>>: none, hex with no prefix, hex with prefix "%".
EscapeArgs == {<<"none", <<>>>>, <<"hex", <<>>>>, <<"hex", <<37>>>>}

\* The bytes an input terminator is made of.
TermBytes == {10}

\* The state of main once choose_struct has returned sd (cli.py line 246 on).
\* --dump-layout returns before any of lenient, max_rows, header_structs and
\* escape is read, so one value of each stands for all of them there; the
\* config's other layouts are read by the header line alone.
Init ==
    /\ input \in SeqsUpTo(InputBytes, MaxInputLen)
    /\ sd \in {StructDef(<<"A">>, fs, <<>>) : fs \in FieldLists}
    /\ in_term_bytes \in SeqsUpTo(TermBytes, MaxTermLen)
    /\ dump_layout \in BOOLEAN
    /\ lenient \in IF dump_layout THEN {FALSE} ELSE BOOLEAN
    /\ max_rows \in IF dump_layout THEN {0} ELSE 0..MaxRows
    /\ header_structs \in IF dump_layout THEN {FALSE} ELSE BOOLEAN
    /\ escape \in IF dump_layout THEN {<<"none", <<>>>>} ELSE EscapeArgs
    /\ structs \in IF header_structs THEN {<<sd>>, <<sd, OtherStruct>>} ELSE {<<sd>>}
    /\ want_name = None
    /\ input_path = <<>>
    /\ pc = "start"
    /\ written = <<>>
    /\ config = <<>>
    /\ pos = 0
    /\ out = <<>>
    /\ processed = 0
    /\ warnings = 0
    /\ row_no = 0
    /\ stderr = <<>>
    /\ exit_code = 0

\* ------------------------------------------------------------ main: setup

total_field_len == SumLens(sd.fields)

in_term_len == Len(in_term_bytes)

rec_len == total_field_len + in_term_len

total_size == Len(input)

\* rows_limit = args.max_rows if args.max_rows > 0 else None; 0 stands for None.
rows_limit == IF max_rows > 0 THEN max_rows ELSE 0

\* The pre-run size advisory is printed.
SizeAdvisory == rec_len > 0 /\ total_size % rec_len # 0

\* stderr after the pre-run size check.
AdvisoryLog == IF SizeAdvisory THEN <<"WARN_SIZE">> ELSE <<>>

\* ord(c) of the characters a layout name is made of.
Ord(c) == IF c = "A" THEN 65 ELSE IF c = "B" THEN 66 ELSE 63

\* name.encode("utf-8") of an ASCII name
Encode(name) == [i \in DOMAIN name |-> Ord(name[i])]

\* The header line of --header-structs.
header_bytes ==
    Join(sep_bytes, [i \in DOMAIN structs |-> Encode(structs[i].name)]) \o out_term_bytes

\* total_size == 0: "[ERR] input file is empty", exit status 1.
RejectEmpty ==
    /\ pc = "start"
    /\ total_size = 0
    /\ stderr' = Append(stderr, "ERR_EMPTY")
    /\ exit_code' = 1
    /\ pc' = "done"
    /\ UNCHANGED <<args, pos, out, processed, warnings, row_no>>

\* --dump-layout: the size advisory, the layout on stdout, return.
DumpLayout ==
    /\ pc = "start"
    /\ total_size # 0
    /\ dump_layout
    /\ stderr' = stderr \o AdvisoryLog
    /\ pc' = "done"
    /\ UNCHANGED <<args, pos, out, processed, warnings, row_no, exit_code>>

\* The size advisory, the counters set to 0, both files opened, the header written.
OpenFiles ==
    /\ pc = "start"
    /\ total_size # 0
    /\ ~dump_layout
    /\ stderr' = stderr \o AdvisoryLog
    /\ processed' = 0
    /\ warnings' = 0
    /\ row_no' = 0
    /\ pos' = 0
    /\ out' = IF header_structs THEN header_bytes ELSE <<>>
    /\ pc' = "loop"
    /\ UNCHANGED <<args, exit_code>>

\* ------------------------------------------------------- main: the loop

\* A read that never moves on: it returns the first bytes of the file each time.
Read_Rewinds(p, n) == SubSeq(input, 1, Min(n, Len(input)))

\* rf.read(n) at position p: at most n bytes, fewer at the end of the file.
Read(p, n) == SubSeq(input, p + 1, Min(p + n, Len(input)))

\* block = rf.read(total_field_len)
block == Read(pos, total_field_len)

\* tail = rf.read(in_term_len), after the block
tail == Read(pos + Len(block), in_term_len)

\* len(tail) < in_term_len
TermShort == in_term_len > 0 /\ Len(tail) < in_term_len

\* TermMismatch with the comparison inverted.
TermMismatch_Inverted == in_term_len > 0 /\ ~TermShort /\ tail = in_term_bytes

\* tail != in_term_bytes, for a tail read in full
TermMismatch == in_term_len > 0 /\ ~TermShort /\ tail # in_term_bytes

\* SliceFields without pos += ln: every field is cut from the block's start.
SliceFields_NoAdvance(b, fs, p) == [i \in DOMAIN fs |-> SubSeq(b, 1, Min(fs[i][2], Len(b)))]

RECURSIVE SliceFields(_, _, _)
\* seg = block[pos:pos+ln]; pos += ln, for each field in order
SliceFields(b, fs, p) ==
    IF fs = <<>> THEN <<>>
    ELSE <<SubSeq(b, p + 1, Min(p + fs[1][2], Len(b)))>>
         \o SliceFields(b, Tail(fs), p + fs[1][2])

\* sep_bytes.join(out_fields) + out_term_bytes
OutRecord(b) ==
    LET segs == SliceFields(b, sd.fields, 0)
        out_fields == [i \in DOMAIN segs |-> escape_bytes(segs[i], escape[1], escape[2])]
    IN  Join(sep_bytes, out_fields) \o out_term_bytes

\* LimitReached with > for >=: one record too many.
LimitReached_OffByOne(n) == rows_limit # 0 /\ n > rows_limit

\* rows_limit is not None and processed >= rows_limit
LimitReached(n) == rows_limit # 0 /\ n >= rows_limit

\* EndOfStream counting the end of the stream as a warning.
EndOfStream_Warns ==
    /\ pc = "loop"
    /\ block = <<>>
    /\ warnings' = warnings + 1
    /\ pc' = "done"
    /\ UNCHANGED <<args, pos, out, processed, row_no, stderr, exit_code>>

\* if not block: break
EndOfStream ==
    /\ pc = "loop"
    /\ block = <<>>
    /\ pc' = "done"
    /\ UNCHANGED <<args, pos, out, processed, warnings, row_no, stderr, exit_code>>

\* TruncatedTail treating the tail as a framing error: fatal in strict mode.
TruncatedTail_StrictFails ==
    /\ pc = "loop"
    /\ block # <<>>
    /\ Len(block) < total_field_len
    /\ pos' = pos + Len(block)
    /\ stderr' = Append(stderr, "WARN_TAIL")
    /\ warnings' = warnings + 1
    /\ exit_code' = IF lenient THEN exit_code ELSE 2
    /\ pc' = "done"
    /\ UNCHANGED <<args, out, processed, row_no>>

\* TruncatedTail without warnings += 1.
TruncatedTail_NoCount ==
    /\ pc = "loop"
    /\ block # <<>>
    /\ Len(block) < total_field_len
    /\ pos' = pos + Len(block)
    /\ stderr' = Append(stderr, "WARN_TAIL")
    /\ pc' = "done"
    /\ UNCHANGED <<args, out, processed, warnings, row_no, exit_code>>

\* if len(block) < total_field_len: warn, count, break
TruncatedTail ==
    /\ pc = "loop"
    /\ block # <<>>
    /\ Len(block) < total_field_len
    /\ pos' = pos + Len(block)
    /\ stderr' = Append(stderr, "WARN_TAIL")
    /\ warnings' = warnings + 1
    /\ pc' = "done"
    /\ UNCHANGED <<args, out, processed, row_no, exit_code>>

\* FramingAbort checking the terminator after the record is written.
FramingAbort_WritesRecord ==
    /\ pc = "loop"
    /\ Len(block) = total_field_len
    /\ ~lenient
    /\ TermShort \/ TermMismatch
    /\ pos' = pos + Len(block) + Len(tail)
    /\ stderr' = Append(stderr, IF TermShort THEN "ERR_TERM_SHORT" ELSE "ERR_TERM_MISMATCH")
    /\ out' = out \o OutRecord(block)
    /\ exit_code' = 2
    /\ pc' = "done"
    /\ UNCHANGED <<args, processed, warnings, row_no>>

\* Strict mode: a short or mismatched terminator prints the message and exits 2.
FramingAbort ==
    /\ pc = "loop"
    /\ Len(block) = total_field_len
    /\ ~lenient
    /\ TermShort \/ TermMismatch
    /\ pos' = pos + Len(block) + Len(tail)
    /\ stderr' = Append(stderr, IF TermShort THEN "ERR_TERM_SHORT" ELSE "ERR_TERM_MISMATCH")
    /\ exit_code' = 2
    /\ pc' = "done"
    /\ UNCHANGED <<args, out, processed, warnings, row_no>>

\* EmitRecord without tail = in_term_bytes after a short read: the short tail
\* is then counted again as a mismatch.
EmitRecord_CountsShortTwice ==
    /\ pc = "loop"
    /\ Len(block) = total_field_len
    /\ lenient \/ ~(TermShort \/ TermMismatch)
    /\ pos' = pos + Len(block) + Len(tail)
    /\ stderr' = IF TermShort THEN stderr \o <<"ERR_TERM_SHORT", "ERR_TERM_MISMATCH">>
                 ELSE IF TermMismatch THEN Append(stderr, "ERR_TERM_MISMATCH")
                 ELSE stderr
    /\ warnings' = IF TermShort THEN warnings + 2
                   ELSE IF TermMismatch THEN warnings + 1 ELSE warnings
    /\ row_no' = row_no + 1
    /\ out' = out \o OutRecord(block)
    /\ processed' = processed + 1
    /\ pc' = IF LimitReached(processed + 1) THEN "done" ELSE "loop"
    /\ UNCHANGED <<args, exit_code>>

\* The terminator is valid, or absent (in_term_len = 0), or lenient mode lets it
\* pass with one warning: the record is written and counted.
EmitRecord ==
    /\ pc = "loop"
    /\ Len(block) = total_field_len
    /\ lenient \/ ~(TermShort \/ TermMismatch)
    /\ pos' = pos + Len(block) + Len(tail)
    /\ stderr' = IF TermShort THEN Append(stderr, "ERR_TERM_SHORT")
                 ELSE IF TermMismatch THEN Append(stderr, "ERR_TERM_MISMATCH")
                 ELSE stderr
    /\ warnings' = IF TermShort \/ TermMismatch THEN warnings + 1 ELSE warnings
    /\ row_no' = row_no + 1
    /\ out' = out \o OutRecord(block)
    /\ processed' = processed + 1
    /\ pc' = IF LimitReached(processed + 1) THEN "done" ELSE "loop"
    /\ UNCHANGED <<args, exit_code>>

Next ==
    \/ RejectEmpty
    \/ DumpLayout
    \/ OpenFiles
    \/ EndOfStream
    \/ TruncatedTail
    \/ FramingAbort
    \/ EmitRecord

Spec == Init /\ [][Next]_vars

\* ------------------------------------------------------- choose_struct

\* The characters an input path is made of.
PathChars == {"/", ".", "t", "T"}

\* str.lower() on one character
LowerChar(c) ==
    IF c = "T" THEN "t" ELSE IF c = "A" THEN "a" ELSE IF c = "B" THEN "b" ELSE c

\* str.lower()
Lower(s) == [i \in DOMAIN s |-> LowerChar(s[i])]

\* s.rfind(c), counted from 1: 0 when c is not in s
RFind(s, c) ==
    LET hits == {i \in DOMAIN s : s[i] = c}
    IN  IF hits = {} THEN 0 ELSE CHOOSE i \in hits : \A j \in hits : j <= i

\* os.path.basename (posixpath): what follows the last "/"
Basename(p) == SubSeq(p, RFind(p, "/") + 1, Len(p))

\* os.path.splitext(base)[1] for a base without "/": from the last dot on,
\* unless only dots come before it
SplitExt(base) ==
    LET dotIndex == RFind(base, ".")
    IN  IF dotIndex > 0 /\ \E i \in 1..(dotIndex - 1) : base[i] # "."
        THEN SubSeq(base, dotIndex, Len(base))
        ELSE <<>>

RECURSIVE LStripDots(_)
\* s.lstrip(".")
LStripDots(s) == IF s # <<>> /\ s[1] = "." THEN LStripDots(Tail(s)) ELSE s

\* ExtOf without .lower()
ExtOf_NoLower(p) == LStripDots(SplitExt(Basename(p)))

\* ext of choose_struct: os.path.splitext(os.path.basename(p))[1].lower().lstrip(".")
ExtOf(p) == LStripDots(Lower(SplitExt(Basename(p))))

\* [sd for sd in structs if test(sd)]
Filter(ss, Test(_)) == SelectSeq(ss, Test)

\* if want_name: a given, non-empty name
Truthy(w) == w.given /\ w.text # <<>>

\* The first layout named n, as the for loop of choose_struct finds it.
ByName(ss, n) ==
    LET hits == {i \in DOMAIN ss : ss[i].name = n}
    IN  IF hits = {} THEN [ok |-> FALSE, err |-> "not_found"]
        ELSE [ok |-> TRUE, sd |-> ss[CHOOSE i \in hits : \A j \in hits : i <= j]]

\* The automatic choice of choose_struct, by the input path's extension.
ByExt(ss, p) ==
    LET ext == ExtOf(p)
        HasExt(s) == ext \in Range(s.exts)
        NoExts(s) == s.exts = <<>>
        cand == Filter(ss, HasExt)
        no_map == Filter(ss, NoExts)
    IN  IF ext = <<>>
        THEN IF Len(ss) = 1 THEN [ok |-> TRUE, sd |-> ss[1]]
             ELSE [ok |-> FALSE, err |-> "no_ext"]
        ELSE IF Len(cand) = 1 THEN [ok |-> TRUE, sd |-> cand[1]]
        ELSE IF Len(cand) = 0
             THEN IF Len(no_map) = 1 THEN [ok |-> TRUE, sd |-> no_map[1]]
                  ELSE [ok |-> FALSE, err |-> "no_match"]
        ELSE [ok |-> FALSE, err |-> "ambiguous"]

\* choose_struct trying the extension first and the name only when that fails.
choose_struct_ExtFirst(ss, w, p) ==
    IF ByExt(ss, p).ok THEN ByExt(ss, p)
    ELSE IF Truthy(w) THEN ByName(ss, w.text) ELSE ByExt(ss, p)

\* choose_struct(structs, want_name, input_path): the layout returned, or the
\* ValueError raised.
choose_struct(ss, w, p) == IF Truthy(w) THEN ByName(ss, w.text) ELSE ByExt(ss, p)

\* The layout main uses before choose_struct has returned.
NoStruct == StructDef(<<>>, <<>>, <<>>)

\* The layouts a config can define for the selector: a name and an extension list.
SelStructDefs ==
    {StructDef(n, <<<<"A", 1>>>>, e) :
        n \in {<<"A">>, <<"B">>},
        e \in {<<>>, <<<<"t">>>>, <<<<"d">>>>}}

\* The state of main when it calls choose_struct (cli.py line 234).
SelInit ==
    /\ structs \in UNION {[1..n -> SelStructDefs] : n \in 1..MaxStructs}
    /\ want_name \in {None, Some(<<>>), Some(<<"A">>), Some(<<"B">>)}
    /\ input_path \in UNION {[1..n -> PathChars] : n \in 1..MaxPathLen}
    /\ sd = NoStruct
    /\ input = <<>>
    /\ in_term_bytes = <<>>
    /\ lenient = FALSE
    /\ max_rows = 0
    /\ header_structs = FALSE
    /\ dump_layout = FALSE
    /\ escape = <<"none", <<>>>>
    /\ pc = "select"
    /\ written = <<>>
    /\ config = <<>>
    /\ pos = 0
    /\ out = <<>>
    /\ processed = 0
    /\ warnings = 0
    /\ row_no = 0
    /\ stderr = <<>>
    /\ exit_code = 0

\* choose_struct returns a layout: main goes on with it.
SelectOk ==
    /\ pc = "select"
    /\ choose_struct(structs, want_name, input_path).ok
    /\ sd' = choose_struct(structs, want_name, input_path).sd
    /\ pc' = "start"
    /\ UNCHANGED <<written, config, input, structs, want_name, input_path,
                   in_term_bytes, lenient,
                   max_rows, header_structs, dump_layout, escape, pos, out,
                   processed, warnings, row_no, stderr, exit_code>>

\* choose_struct raises: main prints the error and exits with status 2.
SelectError ==
    /\ pc = "select"
    /\ ~choose_struct(structs, want_name, input_path).ok
    /\ stderr' = Append(stderr, choose_struct(structs, want_name, input_path).err)
    /\ exit_code' = 2
    /\ pc' = "done"
    /\ UNCHANGED <<args, pos, out, processed, warnings, row_no>>

SelNext == SelectOk \/ SelectError

SelSpec == SelInit /\ [][SelNext]_vars

\* ------------------------------------------- the input, seen as frames
\* The claims speak of frames: F field bytes followed by T terminator bytes.
\* These definitions cut the input by arithmetic alone, not by reading it.

\* The total length of the first i fields of the chosen layout.
Offset(i) == LET S[k \in 0..i] == IF k = 0 THEN 0 ELSE S[k - 1] + sd.fields[k][2] IN S[i]

FLen == Offset(Len(sd.fields))

TLen == Len(in_term_bytes)

\* The number of frames whose F-byte field block lies in the input in full.
NFull == (Len(input) + TLen) \div (FLen + TLen)

FrameStart(j) == (j - 1) * (FLen + TLen)

FrameBlock(j) == SubSeq(input, FrameStart(j) + 1, FrameStart(j) + FLen)

\* The terminator bytes of frame j that the input holds (fewer than T at its end).
FrameTerm(j) ==
    SubSeq(input, FrameStart(j) + FLen + 1, Min(FrameStart(j) + FLen + TLen, Len(input)))

\* Frame j's terminator is mismatched or truncated.
BadTerm(j) == TLen > 0 /\ FrameTerm(j) # in_term_bytes

BadTerms(n) == {j \in 1..n : BadTerm(j)}

\* The bytes left after the last full field block and its terminator.
TailLen == Len(input) - NFull * (FLen + TLen)

\* main reached the transcoding loop: a non-empty input, no --dump-layout.
Ran == pc \in {"loop", "done"} /\ ~dump_layout /\ Len(input) > 0

\* Frame j's field block cut at the layout's offsets.
RefFields(j) ==
    [i \in 1..Len(sd.fields) |-> SubSeq(FrameBlock(j), Offset(i - 1) + 1, Offset(i))]

\* Frame j's output record with visualization mode none.
RawRecord(j) == Join(sep_bytes, RefFields(j)) \o out_term_bytes

\* Frame j's output record under the run's visualization mode.
RefRecord(j) ==
    Join(sep_bytes, [i \in 1..Len(sd.fields) |->
                        escape_bytes(RefFields(j)[i], escape[1], escape[2])])
    \o out_term_bytes

\* What the run writes before the first record.
HeaderPart == IF Ran /\ header_structs THEN header_bytes ELSE <<>>

\* The input is k >= 1 frames of F+T bytes, every terminator valid.
ValidFrames ==
    /\ Len(input) >= 1
    /\ Len(input) % (FLen + TLen) = 0
    /\ \A j \in 1..(Len(input) \div (FLen + TLen)) : FrameTerm(j) = in_term_bytes

\* ------------------------------------------------------------- claims

\* C1: when the input is exactly k >= 1 frames of F+T bytes, every terminator
\* equal to the input terminator, a transcoding run without a max (strict or
\* lenient) ends with k records emitted, no warning counted or printed, and
\* exit status 0.
C1_ValidFramesAllEmitted ==
    (pc = "done" /\ ~dump_layout /\ max_rows <= 0 /\ ValidFrames) =>
        /\ processed = Len(input) \div (FLen + TLen)
        /\ warnings = 0
        /\ stderr = <<>>
        /\ exit_code = 0

C1_Witness ==
    /\ pc = "done" /\ ~dump_layout /\ max_rows <= 0 /\ ValidFrames
    /\ ~lenient /\ TLen > 0 /\ Len(sd.fields) = 2
    /\ processed = 2

\* C2 as stated: with visualization mode none the output stream after a run is
\* exactly the concatenation of the emitted frames' records.
C2_OutputIsRecordsOnly ==
    (pc = "done" /\ escape[1] = "none") =>
        out = Concat([j \in 1..processed |-> RawRecord(j)])

\* C2, amended: with visualization mode none the output stream is the header
\* line of --header-structs, when that option is set, followed by exactly the
\* concatenation, in input frame order, of one record per emitted frame; a
\* frame's record is its F-byte block cut into the layout's fields in declared
\* order (every byte of the block in exactly one field, in place), joined by
\* the separator, followed by the output terminator. The emitted frames are
\* frames 1..processed; terminator bytes of the input are never copied.
C2_OutputIsHeaderThenRecords ==
    (pc \in {"loop", "done"} /\ escape[1] = "none") =>
        /\ processed <= NFull
        /\ out = HeaderPart \o Concat([j \in 1..processed |-> RawRecord(j)])
        /\ \A j \in 1..processed :
              /\ Concat(RefFields(j)) = FrameBlock(j)
              /\ \A i \in 1..Len(sd.fields) : Len(RefFields(j)[i]) = sd.fields[i][2]

C2_Witness ==
    /\ pc = "done" /\ escape[1] = "none" /\ header_structs
    /\ Len(sd.fields) = 2 /\ TLen > 0
    /\ processed = 2
    /\ FrameBlock(1) # FrameBlock(2)

\* C3: in strict mode, when frame j is the first frame whose terminator is
\* mismatched or truncated and j is within the max record count, the run ends
\* with failure (exit status 2) at frame j: the records written are exactly
\* those of frames 1..j-1 and no record can be written afterwards.
C3_StrictAbortsAtFirstBadFrame ==
    \A j \in 1..NFull :
        (/\ pc = "done" /\ Ran /\ ~lenient
         /\ BadTerm(j) /\ BadTerms(j - 1) = {}
         /\ (max_rows <= 0 \/ j <= max_rows)) =>
            /\ exit_code = 2
            /\ processed = j - 1
            /\ out = HeaderPart \o Concat([i \in 1..(j - 1) |-> RefRecord(i)])
            /\ ~ENABLED Next

C3_Witness ==
    /\ pc = "done" /\ Ran /\ ~lenient
    /\ NFull = 3 /\ BadTerms(3) = {2}
    /\ max_rows = 0
    /\ exit_code = 2 /\ processed = 1

\* The records a run emits when nothing aborts it: every full frame, up to the max.
Emitted == IF max_rows > 0 THEN Min(NFull, max_rows) ELSE NFull

\* The run reads the 1..F-1 bytes that follow the last full frame.
TailReached == TailLen > 0 /\ ~(max_rows > 0 /\ max_rows <= NFull)

\* C4: in lenient mode every frame whose field block was read in full (up to
\* the max) yields its record whatever its terminator, the run ends with exit
\* status 0, and the warning counter is one per emitted frame with a
\* mismatched or truncated terminator (a truncated one counted once), plus one
\* for a truncated tail; so k full frames with exactly one bad terminator, no
\* max, end with k records and warnings = 1.
C4_LenientEmitsEveryFullFrame ==
    (pc = "done" /\ Ran /\ lenient) =>
        /\ exit_code = 0
        /\ processed = Emitted
        /\ out = HeaderPart \o Concat([j \in 1..Emitted |-> RefRecord(j)])
        /\ warnings = Cardinality(BadTerms(Emitted)) + (IF TailReached THEN 1 ELSE 0)
        /\ (max_rows <= 0 /\ TailLen <= 0 /\ Cardinality(BadTerms(NFull)) = 1) =>
              (processed = NFull /\ warnings = 1)

C4_Witness ==
    /\ pc = "done" /\ Ran /\ lenient /\ max_rows <= 0
    /\ NFull = 2 /\ BadTerms(2) = {2}
    /\ FrameTerm(2) # <<>> /\ Len(FrameTerm(2)) < TLen
    /\ processed = 2 /\ warnings = 1

\* C5: when the read of a field block returns between 1 and F-1 bytes, that
\* step adds exactly one warning, writes nothing, emits no record and ends the
\* run with exit status 0, in strict mode as well as in lenient mode.
C5_TruncatedTailWarnsAndEndsNormally ==
    [][(pc = "loop" /\ Len(input) - pos \in 1..(FLen - 1)) =>
          /\ warnings' = warnings + 1
          /\ stderr' = Append(stderr, "WARN_TAIL")
          /\ out' = out
          /\ processed' = processed
          /\ pc' = "done"
          /\ exit_code' = 0]_vars

C5_Witness ==
    /\ pc = "done" /\ Ran /\ ~lenient
    /\ processed = 1 /\ TailLen = 1
    /\ stderr[Len(stderr)] = "WARN_TAIL"
    /\ warnings = 1 /\ exit_code = 0

\* C6: with a max record count M > 0 the records emitted never exceed M; as
\* soon as the M-th record is written the run is over with exit status 0, the
\* input read no further than the end of frame M, and the warnings those of
\* frames 1..M alone (a bad terminator or a truncated tail after frame M
\* neither aborts nor warns). A max of 0 is no limit: a run that ends with
\* exit status 0 has read the whole input and emitted every full frame.
C6_MaxRowsStopsTheRun ==
    /\ max_rows > 0 => processed <= max_rows
    /\ (max_rows > 0 /\ processed = max_rows) =>
          /\ pc = "done"
          /\ exit_code = 0
          /\ pos = Min(max_rows * (FLen + TLen), Len(input))
          /\ warnings = Cardinality(BadTerms(max_rows))
          /\ ~lenient => (warnings = 0 /\ \A i \in DOMAIN stderr : stderr[i] = "WARN_SIZE")
    /\ (max_rows = 0 /\ pc = "done" /\ Ran /\ exit_code = 0) =>
          (pos = Len(input) /\ processed = NFull)

C6_Witness ==
    /\ pc = "done" /\ Ran /\ ~lenient
    /\ max_rows = 1 /\ processed = 1
    /\ NFull = 2 /\ BadTerms(2) = {2}
    /\ exit_code = 0 /\ warnings = 0

\* C7 as stated: whenever no input is left at the start of a record, the
\* first one included, the run ends normally: exit status 0, no warning, no
\* error message, no further output.
C7_ZeroReadAlwaysEndsNormally ==
    [][(~dump_layout /\ pc \in {"start", "loop"} /\ pos = Len(input)) =>
          /\ pc' = "done"
          /\ exit_code' = 0
          /\ warnings' = warnings
          /\ stderr' = stderr
          /\ out' = out]_vars

\* C7, amended: whenever the read of a field block returns 0 bytes the run
\* ends normally with no warning, no error and no further output, and at
\* least one record has been emitted by then: that read is never the first
\* record's, because an empty input is rejected before the loop with an
\* error message and exit status 1, nothing written.
C7_ZeroReadEndsNormallyAfterFirstRecord ==
    /\ [][(pc = "loop" /\ pos = Len(input)) =>
             /\ processed >= 1
             /\ pc' = "done"
             /\ exit_code' = 0
             /\ warnings' = warnings
             /\ stderr' = stderr
             /\ out' = out
             /\ processed' = processed]_vars
    /\ [][(pc = "start" /\ Len(input) = 0) =>
             /\ pc' = "done"
             /\ exit_code' = 1
             /\ stderr' = Append(stderr, "ERR_EMPTY")
             /\ out' = <<>>
             /\ processed' = 0]_vars

C7_Witness ==
    /\ pc = "done" /\ Ran /\ max_rows <= 0
    /\ pos = Len(input) /\ TailLen = 0
    /\ processed = 2 /\ NFull = 2
    /\ stderr = <<>> /\ exit_code = 0

\* A message on stderr that is a warning: the size advisory, the truncated
\* tail, and in lenient mode the two framing messages.
IsWarning(m) ==
    \/ m \in {"WARN_SIZE", "WARN_TAIL"}
    \/ lenient /\ m \in {"ERR_TERM_SHORT", "ERR_TERM_MISMATCH"}

\* C8 as stated: every warning emitted during a run, the pre-run size
\* advisory included, adds one to the warning counter.
C8_EveryWarningCounted ==
    (pc = "done" /\ Ran) => warnings = Cardinality({i \in DOMAIN stderr : IsWarning(stderr[i])})

\* C8, amended: every warning emitted by the transcoding loop is counted: the
\* truncated-tail warning and each lenient framing warning add one to the
\* warning counter. The pre-run size advisory is printed exactly when the
\* input size is not a multiple of F+T, and it is not counted.
C8_LoopWarningsCounted ==
    Ran =>
        /\ warnings = Cardinality({i \in DOMAIN stderr :
                                      IsWarning(stderr[i]) /\ stderr[i] # "WARN_SIZE"})
        /\ ("WARN_SIZE" \in Range(stderr)) <=> (Len(input) % (FLen + TLen) # 0)
        /\ \A i \in DOMAIN stderr : stderr[i] = "WARN_SIZE" => i = 1

C8_Witness ==
    /\ pc = "done" /\ Ran /\ lenient
    /\ stderr = <<"WARN_SIZE", "ERR_TERM_MISMATCH", "WARN_TAIL">>
    /\ warnings = 2

\* ------------------------------------------- the selector's outcomes

\* choose_struct returned the layout s.
Selected(s) == pc = "start" /\ sd = s /\ exit_code = 0

\* choose_struct raised the selection error kind: main exits with status 2.
SelectionError(kind) ==
    pc = "done" /\ exit_code = 2 /\ sd = NoStruct /\ stderr = <<kind>>

\* The input file name's extension, lowercased, without its dot: what follows
\* the last dot of the name after the last "/", when a character other than a
\* dot comes before that dot; empty otherwise.
RefExt ==
    LET slashes == {i \in DOMAIN input_path : input_path[i] = "/"}
        from == IF slashes = {} THEN 1
                ELSE 1 + CHOOSE i \in slashes : \A j \in slashes : j <= i
        dots == {k \in from..Len(input_path) :
                    /\ input_path[k] = "."
                    /\ \A i \in (k + 1)..Len(input_path) : input_path[i] # "."
                    /\ \E i \in from..(k - 1) : input_path[i] # "."}
    IN  IF dots = {} THEN <<>>
        ELSE LET k == CHOOSE k \in dots : TRUE
             IN  [i \in 1..(Len(input_path) - k) |-> LowerChar(input_path[k + i])]

\* The positions of the layouts that list the extension, and of those that
\* list no extension at all.
Listing == {i \in DOMAIN structs : RefExt \in Range(structs[i].exts)}

Unmapped == {i \in DOMAIN structs : structs[i].exts = <<>>}

\* The outcome of resolving by extension, as the claims state it.
ResolvedByExtension ==
    IF RefExt = <<>>
    THEN IF Len(structs) = 1 THEN Selected(structs[1]) ELSE SelectionError("no_ext")
    ELSE IF Cardinality(Listing) = 1
         THEN Selected(structs[CHOOSE i \in Listing : TRUE])
    ELSE IF Cardinality(Listing) = 0
         THEN IF Cardinality(Unmapped) = 1
              THEN Selected(structs[CHOOSE i \in Unmapped : TRUE])
              ELSE SelectionError("no_match")
    ELSE SelectionError("ambiguous")

\* The outcome of resolving by the name n alone.
ResolvedByName(n) ==
    IF \E i \in DOMAIN structs : structs[i].name = n
    THEN pc = "start" /\ exit_code = 0 /\ sd.name = n /\ sd \in Range(structs)
    ELSE SelectionError("not_found")

\* C9 as stated: whenever an explicit layout name is given, choose_struct
\* returns a layout of exactly that name if one exists and fails with a
\* selection error otherwise; the extension plays no part.
C9_GivenNameIgnoresExtension ==
    (pc # "select" /\ want_name.given) => ResolvedByName(want_name.text)

\* C9, amended: whenever a non-empty explicit layout name is given,
\* choose_struct returns a layout of exactly that name if one exists (even
\* when the extension maps to another layout) and fails with a selection
\* error otherwise, never falling back to the extension. An empty name counts
\* as no name: the layout is then resolved by the extension.
C9_NonEmptyNameIgnoresExtension ==
    (pc # "select" /\ want_name.given) =>
        IF want_name.text # <<>>
        THEN ResolvedByName(want_name.text)
        ELSE ResolvedByExtension

C9_Witness ==
    /\ pc = "start" /\ want_name.given /\ want_name.text # <<>>
    /\ sd.name = want_name.text
    /\ Cardinality(Listing) = 1
    /\ structs[CHOOSE i \in Listing : TRUE].name # want_name.text

MaxEscLen == 2

\* Byte values on both sides of every hex digit boundary.
EscBytes == {0, 10, 65, 159, 171, 255}

\* Mode strings: the two escape_bytes accepts and two it does not.
EscModes == {"none", "hex", "HEX", "oct"}

\* Prefixes: "", "%" and "\x".
EscPrefixes == {<<>>, <<37>>, <<92, 120>>}

EscInit ==
    /\ input \in SeqsUpTo(EscBytes, MaxEscLen)
    /\ escape \in EscModes \X EscPrefixes
    /\ pc = "escape"
    /\ written = <<>>
    /\ config = <<>>
    /\ structs = <<>>
    /\ want_name = None
    /\ input_path = <<>>
    /\ sd = NoStruct
    /\ in_term_bytes = <<>>
    /\ lenient = FALSE
    /\ max_rows = 0
    /\ header_structs = FALSE
    /\ dump_layout = FALSE
    /\ pos = 0
    /\ out = <<>>
    /\ processed = 0
    /\ warnings = 0
    /\ row_no = 0
    /\ stderr = <<>>
    /\ exit_code = 0

\* escape_bytes returns.
EscapeReturn ==
    /\ pc = "escape"
    /\ ~EscapeRaises(escape[1])
    /\ out' = escape_bytes(input, escape[1], escape[2])
    /\ pc' = "escaped"
    /\ UNCHANGED <<args, pos, processed, warnings, row_no, stderr, exit_code>>

\* escape_bytes raises ValueError.
EscapeError ==
    /\ pc = "escape"
    /\ EscapeRaises(escape[1])
    /\ stderr' = Append(stderr, "ValueError")
    /\ pc' = "raised"
    /\ UNCHANGED <<args, pos, out, processed, warnings, row_no, exit_code>>

EscNext == EscapeReturn \/ EscapeError

EscSpec == EscInit /\ [][EscNext]_vars

\* The reference of C16: the digits "0123456789abcdef", looked up by position.
LowerHexDigits == <<48, 49, 50, 51, 52, 53, 54, 55, 56, 57, 97, 98, 99, 100, 101, 102>>

\* The reference of C16 for hex with no prefix: 3n-1 bytes, the two digits of
\* byte k at 3k-2 and 3k-1, a space after every byte but the last.
RefSpacedHex(bs, res) ==
    /\ Len(res) = (IF Len(bs) = 0 THEN 0 ELSE 3 * Len(bs) - 1)
    /\ \A k \in DOMAIN bs :
        /\ res[3 * k - 2] = LowerHexDigits[(bs[k] \div 16) + 1]
        /\ res[3 * k - 1] = LowerHexDigits[(bs[k] % 16) + 1]
        /\ k < Len(bs) => res[3 * k] = 32

\* The reference of C16 for hex with prefix P: n*(|P|+2) bytes, byte k being
\* P and then its two digits, nothing between the bytes.
RefPrefixedHex(bs, P, res) ==
    LET w == Len(P) + 2 IN
    /\ Len(res) = Len(bs) * w
    /\ \A k \in DOMAIN bs :
        /\ \A j \in DOMAIN P : res[(k - 1) * w + j] = P[j]
        /\ res[k * w - 1] = LowerHexDigits[(bs[k] \div 16) + 1]
        /\ res[k * w] = LowerHexDigits[(bs[k] % 16) + 1]

MaxLoopLen == 4

\* The states Init allows in which termination is at stake: any input of up to
\* MaxLoopLen bytes, any layout, terminator, --lenient and --max-rows; the
\* options that only change the bytes written are left at their defaults.
LoopInit ==
    /\ Init
    /\ Len(input) <= MaxLoopLen
    /\ escape = <<"none", <<>>>>
    /\ ~header_structs

FairSpec == LoopInit /\ [][Next]_vars /\ WF_vars(Next)

\* The iterations of the while loop a finished run has gone through: one for
\* every row accepted, and one more for the iteration that left the loop at
\* "if not block", at the short block or at sys.exit(2); the iteration that
\* reaches the row limit is the one that accepted the last row.
Iterations == row_no + (IF LimitReached(processed) THEN 0 ELSE 1)

\* ceil(a / b)
CeilDiv(a, b) == (a + b - 1) \div b

\* C17 as stated: every run reaches its end, after at most ceil(size / F)
\* iterations of the loop.
C17_EndsWithinCeilIterations ==
    /\ <>(pc = "done")
    /\ [](pc = "done" /\ Ran => Iterations <= CeilDiv(Len(input), FLen))

\* C17: every run reaches its end, in lenient mode too: F >= 1, an iteration
\* that does not end the run accepts one row and consumes at least F input
\* bytes, the bytes consumed never exceed the input, and a finished run has
\* gone through at most floor(size / F) + 1 iterations.
C17_LoopTerminates ==
    /\ <>(pc = "done")
    /\ [](FLen >= 1)
    /\ [][pc = "loop" /\ pc' = "loop" => pos' >= pos + FLen /\ row_no' = row_no + 1]_vars
    /\ [](Ran => row_no * FLen <= pos /\ pos <= Len(input))
    /\ [](pc = "done" /\ Ran => Iterations <= (Len(input) \div FLen) + 1)

\* A lenient run with a terminator went through three iterations, the last of
\* which found the stream exhausted, and ended.
C17_Witness ==
    /\ pc = "done"
    /\ Ran
    /\ lenient
    /\ TLen = 1
    /\ max_rows = 0
    /\ row_no = 2
    /\ Iterations = 3
    /\ pos = Len(input)

\* ------------------------------------------------------ the config text
\* A config text is a sequence of symbols. "/", "*", "{", "}", "[", "]", ";",
\* ",", ".", "-", " ", "\n" and the digits are the characters themselves; every
\* other symbol is a whole word (struct, BYTE, a name, an extension), which no
\* regular expression of parser.py can match a part of.

Spaces == {" ", "\n"}

Digits == <<"0", "1", "2", "3">>

\* The words a config text is written with.
Words == {"struct", "BYTE", "A", "B", "X", "Y", "txt", "TXT", "dat"}

\* \w
IsWord(c) == c \in Words \cup Range(Digits)

\* [A-Za-z_] at the start of a symbol
IsWordStart(c) == c \in Words

\* str.lower() of one symbol
LowerSym(c) ==
    CASE c = "A" -> "a" [] c = "B" -> "b" [] c = "X" -> "x" [] c = "Y" -> "y"
      [] c = "TXT" -> "txt" [] c = "BYTE" -> "byte" [] OTHER -> c

\* int(c) of one digit
DigitVal(c) == CHOOSE d \in 0..(Len(Digits) - 1) : Digits[d + 1] = c

RECURSIVE IntOf(_)
\* int(ds) of a digit string
IntOf(ds) ==
    IF ds = <<>> THEN 0
    ELSE 10 * IntOf(SubSeq(ds, 1, Len(ds) - 1)) + DigitVal(ds[Len(ds)])

RECURSIVE FindSym(_, _, _)
\* The first index j >= i with t[j] = c, or 0.
FindSym(t, c, i) ==
    IF i > Len(t) THEN 0 ELSE IF t[i] = c THEN i ELSE FindSym(t, c, i + 1)

RECURSIVE FindPair(_, _, _, _)
\* The first index j >= i with t[j] = a and t[j + 1] = b, or 0.
FindPair(t, a, b, i) ==
    IF i >= Len(t) THEN 0
    ELSE IF t[i] = a /\ t[i + 1] = b THEN i
    ELSE FindPair(t, a, b, i + 1)

RECURSIVE SkipIn(_, _, _)
\* Where a greedy run of symbols of the class Cs, started at i, ends: the
\* first index j >= i whose symbol is not in Cs, or Len(t) + 1.
SkipIn(t, i, Cs) ==
    IF i > Len(t) \/ t[i] \notin Cs THEN i ELSE SkipIn(t, i + 1, Cs)

\* \s*, \w* and \d* from index i on
SkipSpaces(t, i) == SkipIn(t, i, Spaces)

SkipWord(t, i) == SkipIn(t, i, Words \cup Range(Digits))

SkipDigits(t, i) == SkipIn(t, i, Range(Digits))

RECURSIVE SkipExt(_, _)
\* [^;{}]* from index i on
SkipExt(t, i) ==
    IF i > Len(t) \/ t[i] \in {";", "{", "}"} THEN i ELSE SkipExt(t, i + 1)

\* t[i] = c, false past the end of t.
At(t, i, c) == i <= Len(t) /\ t[i] = c

\* ------------------------------------------ strip_block_and_line_comments

RECURSIVE SubBlockComments(_, _)
\* re.sub(r"/\*.*?\*/", "", text, flags=re.DOTALL), from index i on: a "/*"
\* with a "*/" after it is deleted up to the first such "*/"; with none after
\* it, it is no match and stays.
SubBlockComments(t, i) ==
    IF i > Len(t) THEN <<>>
    ELSE LET close == IF At(t, i, "/") /\ At(t, i + 1, "*")
                      THEN FindPair(t, "*", "/", i + 2) ELSE 0
         IN IF close # 0 THEN SubBlockComments(t, close + 2)
            ELSE <<t[i]>> \o SubBlockComments(t, i + 1)

RECURSIVE SplitLines(_)
\* text.splitlines(): no line for an empty text, none after a final line break.
SplitLines(t) ==
    IF t = <<>> THEN <<>>
    ELSE LET k == FindSym(t, "\n", 1) IN
         IF k = 0 THEN <<t>>
         ELSE <<SubSeq(t, 1, k - 1)>> \o SplitLines(SubSeq(t, k + 1, Len(t)))

\* raw.split("//", 1)[0]
BeforeLineComment(raw) ==
    LET k == FindPair(raw, "/", "/", 1) IN
    IF k = 0 THEN raw ELSE SubSeq(raw, 1, k - 1)

strip_block_and_line_comments(text) ==
    LET lines == SplitLines(SubBlockComments(text, 1)) IN
    Join(<<"\n">>, [i \in DOMAIN lines |-> BeforeLineComment(lines[i])])

\* ------------------------------------------------------- parse_ext_list

RECURSIVE Split(_, _)
\* s.split(c)
Split(s, c) ==
    LET k == FindSym(s, c, 1) IN
    IF k = 0 THEN <<s>>
    ELSE <<SubSeq(s, 1, k - 1)>> \o Split(SubSeq(s, k + 1, Len(s)), c)

RECURSIVE StripSyms(_, _)
\* s.strip(chars): the symbols of Cs removed at both ends.
StripSyms(s, Cs) ==
    IF s = <<>> THEN s
    ELSE IF s[1] \in Cs THEN StripSyms(Tail(s), Cs)
    ELSE IF s[Len(s)] \in Cs THEN StripSyms(SubSeq(s, 1, Len(s) - 1), Cs)
    ELSE s

\* One token of the extension list, as the loop body of parse_ext_list leaves
\* it; <<>> when the token is dropped.
ExtToken(tok) ==
    LET t1 == StripSyms(tok, Spaces)
        t2 == IF t1 # <<>> /\ t1[1] = "." THEN Tail(t1) ELSE t1
        t3 == [i \in DOMAIN t2 |-> LowerSym(t2[i])]
    IN StripSyms(t3, {" ", ";", "\n"})

parse_ext_list(exts_raw) ==
    IF exts_raw = <<>> THEN <<>>
    ELSE LET toks == Split(exts_raw, ",") IN
         Filter([i \in DOMAIN toks |-> ExtToken(toks[i])], LAMBDA e : e # <<>>)
\* ------------------------------------------------ parse_structs_config

NoMatch == [ok |-> FALSE]

\* \}\s*([^;{}]*)?;? from the "}" at index e on: the extension text and the
\* index after the match.
AfterBody(t, e) ==
    LET f == SkipSpaces(t, e + 1)
        g == SkipExt(t, f)
    IN [ext |-> SubSeq(t, f, g - 1), end |-> IF At(t, g, ";") THEN g + 1 ELSE g]

\* \{(.*?)\}\s*([^;{}]*)?;? at index d, for a block named name: the body runs
\* to the first "}" after the "{".
BlockFrom(t, d, name) ==
    LET e == IF At(t, d, "{") THEN FindSym(t, "}", d + 1) ELSE 0
        rest == AfterBody(t, e)
    IN IF e = 0 THEN NoMatch
       ELSE [ok |-> TRUE, name |-> name, body |-> SubSeq(t, d + 1, e - 1),
             ext |-> rest.ext, end |-> rest.end]

\* STRUCT_BLOCK_RE matched at index i: struct, \s+, the name, \s*, the block.
StructBlockAt(t, i) ==
    LET b == SkipSpaces(t, i + 1)
        c == SkipWord(t, b + 1)
    IN IF At(t, i, "struct") /\ b > i + 1 /\ b <= Len(t) /\ IsWordStart(t[b])
       THEN BlockFrom(t, SkipSpaces(t, c), SubSeq(t, b, c - 1))
       ELSE NoMatch

\* The anonymous form matched at index i: struct, \s*, the block.
AnonBlockAt(t, i) ==
    IF At(t, i, "struct")
    THEN BlockFrom(t, SkipSpaces(t, i + 1), <<"_anonymous_">>)
    ELSE NoMatch

RECURSIVE FindBlocks(_, _)
\* STRUCT_BLOCK_RE.finditer(cleaned), from index i on.
FindBlocks(t, i) ==
    IF i > Len(t) THEN <<>>
    ELSE LET m == StructBlockAt(t, i) IN
         IF m.ok THEN <<m>> \o FindBlocks(t, m.end) ELSE FindBlocks(t, i + 1)

RECURSIVE SearchAnon(_, _)
\* re.search of the anonymous form, from index i on: the first match, if any.
SearchAnon(t, i) ==
    IF i > Len(t) THEN NoMatch
    ELSE LET m == AnonBlockAt(t, i) IN IF m.ok THEN m ELSE SearchAnon(t, i + 1)

\* BYTE_DECL_RE matched at index i of a body: \bBYTE, \s+, the name, \s*, "[",
\* \s*, the digits, \s*, "]", \s*, ";".
ByteDeclAt(b, i) ==
    LET n1 == SkipSpaces(b, i + 1)
        n2 == SkipWord(b, n1 + 1)
        lb == SkipSpaces(b, n2)
        d1 == SkipSpaces(b, lb + 1)
        d2 == SkipDigits(b, d1)
        rb == SkipSpaces(b, d2)
        sc == SkipSpaces(b, rb + 1)
    IN IF /\ At(b, i, "BYTE") /\ (i = 1 \/ ~IsWord(b[i - 1]))
          /\ n1 > i + 1 /\ n1 <= Len(b) /\ IsWordStart(b[n1])
          /\ At(b, lb, "[")
          /\ d2 > d1
          /\ At(b, rb, "]")
          /\ At(b, sc, ";")
       THEN [ok |-> TRUE, fname |-> SubSeq(b, n1, n2 - 1),
             flen |-> IntOf(SubSeq(b, d1, d2 - 1)), end |-> sc + 1]
       ELSE NoMatch

RECURSIVE FindDecls(_, _)
\* BYTE_DECL_RE.finditer(body), from index i on: the (fname, flen) pairs.
FindDecls(b, i) ==
    IF i > Len(b) THEN <<>>
    ELSE LET m == ByteDeclAt(b, i) IN
         IF m.ok THEN <<<<m.fname, m.flen>>>> \o FindDecls(b, m.end)
         ELSE FindDecls(b, i + 1)

\* The ValueError one block raises, or "" for none: a declared length <= 0
\* comes first, as the loop over the declarations raises before the field
\* list is looked at.
BlockError(m) ==
    LET fields == FindDecls(m.body, 1) IN
    IF \E k \in DOMAIN fields : fields[k][2] <= 0 THEN "ERR_FIELD_LEN"
    ELSE IF fields = <<>> THEN "ERR_NO_FIELDS"
    ELSE ""

\* StructDef(name=name, fields=fields, exts=exts) of one matched block
BlockDef(m) == StructDef(m.name, FindDecls(m.body, 1), parse_ext_list(m.ext))

\* The result of walking the matched blocks in order: every layout, or the
\* error of the first block that raises.
DefsOf(ms) ==
    LET Bad == {k \in DOMAIN ms : BlockError(ms[k]) # ""} IN
    IF Bad = {} THEN [ok |-> TRUE, structs |-> [k \in DOMAIN ms |-> BlockDef(ms[k])]]
    ELSE [ok |-> FALSE, err |-> BlockError(ms[CHOOSE k \in Bad : \A j \in Bad : k <= j])]

\* parse_structs_config(text): the layouts returned, or the ValueError raised.
parse_structs_config(text) ==
    LET cleaned == strip_block_and_line_comments(text)
        named == FindBlocks(cleaned, 1)
        anon == SearchAnon(cleaned, 1)
    IN IF named # <<>> THEN DefsOf(named)
       ELSE IF anon.ok THEN DefsOf(<<anon>>)
       ELSE [ok |-> FALSE, err |-> "ERR_NO_STRUCT"]

\* ------------------------------- strip_block_and_line_comments, on its own
\* The function applied to a text: config is its argument before the call and
\* the text it returns after it.

MaxTextLen == 8

\* The symbols comments are made of, and one that is none of them.
CommentSyms == {"/", "*", "\n", "A"}

StripInit ==
    /\ config \in SeqsUpTo(CommentSyms, MaxTextLen)
    /\ pc = "strip"
    /\ written = <<>>
    /\ input = <<>>
    /\ structs = <<>>
    /\ want_name = None
    /\ input_path = <<>>
    /\ sd = NoStruct
    /\ in_term_bytes = <<>>
    /\ lenient = FALSE
    /\ max_rows = 0
    /\ header_structs = FALSE
    /\ dump_layout = FALSE
    /\ escape = <<"none", <<>>>>
    /\ pos = 0
    /\ out = <<>>
    /\ processed = 0
    /\ warnings = 0
    /\ row_no = 0
    /\ stderr = <<>>
    /\ exit_code = 0

\* One pass of strip_block_and_line_comments.
StripComments ==
    /\ pc = "strip"
    /\ config' = strip_block_and_line_comments(config)
    /\ pc' = "stripped"
    /\ UNCHANGED <<written, input, structs, want_name, input_path, sd,
                   in_term_bytes, lenient, max_rows, header_structs, dump_layout,
                   escape, pos, out, processed, warnings, row_no, stderr,
                   exit_code>>

StripNext == StripComments

StripSpec == StripInit /\ [][StripNext]_vars

\* The text holds a block comment: a "/*" with a "*/" after it.
HasBlockComment(t) ==
    \E i \in 1..Len(t) : At(t, i, "/") /\ At(t, i + 1, "*") /\ FindPair(t, "*", "/", i + 2) # 0

\* The text holds a line comment.
HasLineComment(t) == FindPair(t, "/", "/", 1) # 0

\* C14: strip_block_and_line_comments is idempotent, strip(strip(t)) = strip(t),
\* and the result of one pass holds no block comment and no line comment.
C14_StripIsIdempotent ==
    pc = "stripped" =>
        /\ strip_block_and_line_comments(config) = config
        /\ ~HasBlockComment(config)
        /\ ~HasLineComment(config)

\* ------------------------------------------- main: reading the config file
\* The config file is written as a sequence of struct blocks; config is the
\* text the blocks come to, and the parser is given the text alone.

MaxBlocks == 2

\* The names of the fields of a block, by position.
FieldSyms == <<"X", "Y">>

\* The lengths a block's declarations are written with: none, valid ones, a
\* zero, a negative one.
DeclLens == {<<>>, <<1>>, <<2, 1>>, <<0>>, <<-1>>, <<1, -1>>}

\* One block as written: name is <<>> for the anonymous form; exts says
\* whether an extension list follows the "}", semi whether a ";" ends the
\* block; comment is "none", "open" for a "/*" put before the block and not
\* closed, "block" for the block put between "/*" and "*/".
Blocks ==
    [name : {<<>>, <<"A">>, <<"B">>}, lens : DeclLens, exts : BOOLEAN,
     semi : BOOLEAN, comment : {"none", "open", "block"}]

\* The digits of a declared length.
LenSyms(n) == IF n < 0 THEN <<"-", Digits[1 - n]>> ELSE <<Digits[n + 1]>>

\* " BYTE X[n];"
RenderDecl(k, n) == <<" ", "BYTE", " ", FieldSyms[k], "[">> \o LenSyms(n) \o <<"]", ";">>

\* The text of one block, on a line of its own.
RenderBlock(b) ==
    (IF b.comment = "none" THEN <<>> ELSE <<"/", "*">>)
    \o <<"struct">> \o (IF b.name = <<>> THEN <<>> ELSE <<" ">> \o b.name)
    \o <<" ", "{">> \o Concat([k \in DOMAIN b.lens |-> RenderDecl(k, b.lens[k])])
    \o <<" ", "}">>
    \o (IF b.exts THEN <<" ", ".", "TXT", ",", " ", "dat">> ELSE <<>>)
    \o (IF b.semi THEN <<";">> ELSE <<>>)
    \o (IF b.comment = "block" THEN <<"*", "/">> ELSE <<>>)
    \o <<"\n">>

\* The text of the config file.
RenderConfig(bs) == Concat([k \in DOMAIN bs |-> RenderBlock(bs[k])])

\* The state of main before it reads the config file (cli.py line 225).
ParseInit ==
    /\ written \in UNION {[1..n -> Blocks] : n \in 1..MaxBlocks}
    /\ config = RenderConfig(written)
    /\ pc = "parse"
    /\ structs = <<>>
    /\ input = <<>>
    /\ want_name = None
    /\ input_path = <<>>
    /\ sd = NoStruct
    /\ in_term_bytes = <<>>
    /\ lenient = FALSE
    /\ max_rows = 0
    /\ header_structs = FALSE
    /\ dump_layout = FALSE
    /\ escape = <<"none", <<>>>>
    /\ pos = 0
    /\ out = <<>>
    /\ processed = 0
    /\ warnings = 0
    /\ row_no = 0
    /\ stderr = <<>>
    /\ exit_code = 0

\* parse_structs_config returns the layouts: main goes on to choose_struct.
ParseOk ==
    /\ pc = "parse"
    /\ LET r == parse_structs_config(config) IN r.ok /\ structs' = r.structs
    /\ pc' = "select"
    /\ UNCHANGED <<written, config, input, want_name, input_path, sd,
                   in_term_bytes, lenient, max_rows, header_structs, dump_layout,
                   escape, pos, out, processed, warnings, row_no, stderr,
                   exit_code>>

\* parse_structs_config raises: main prints the error and exits with status 2.
ParseError ==
    /\ pc = "parse"
    /\ LET r == parse_structs_config(config) IN ~r.ok /\ stderr' = Append(stderr, r.err)
    /\ exit_code' = 2
    /\ pc' = "done"
    /\ UNCHANGED <<args, pos, out, processed, warnings, row_no>>

ParseNext == ParseOk \/ ParseError

ParseSpec == ParseInit /\ [][ParseNext]_vars

\* ------------------------------------------- the config file, as written
\* The claims about the parser speak of the blocks a config is made of.

\* main is past parse_structs_config.
ParseEnded == pc \in {"select", "done"} /\ written # <<>>

\* parse_structs_config raised.
ParseFailed == pc = "done" /\ exit_code = 2 /\ Len(stderr) = 1

\* No block has an unclosed "/*" before it.
NoOpenComment == \A k \in DOMAIN written : written[k].comment # "open"

\* The blocks that are not inside a comment.
Active == SelectSeq(written, LAMBDA b : b.comment = "none")

\* The block declares at least one field and only positive lengths.
ValidFields(b) == b.lens # <<>> /\ \A j \in DOMAIN b.lens : b.lens[j] > 0

\* The layout a block defines: its name or the placeholder, its fields in
\* declaration order, its extensions lowered and without the dot.
LayoutOf(b) ==
    StructDef(IF b.name = <<>> THEN <<"_anonymous_">> ELSE b.name,
              [j \in DOMAIN b.lens |-> <<<<FieldSyms[j]>>, b.lens[j]>>],
              IF b.exts THEN <<<<"txt">>, <<"dat">>>> ELSE <<>>)

\* C11: for a config made of N >= 1 well-formed named blocks, extension list
\* and trailing semicolon each optional, parse_structs_config returns exactly
\* N layouts in source order, the i-th with the i-th block's name, fields and
\* extension list.
C11_ReturnsEveryNamedBlock ==
    (/\ ParseEnded
     /\ NoOpenComment
     /\ Active # <<>>
     /\ \A k \in DOMAIN Active : Active[k].name # <<>> /\ ValidFields(Active[k]))
    => /\ pc = "select"
       /\ structs = [k \in DOMAIN Active |-> LayoutOf(Active[k])]

\* C12: parse_structs_config fails whenever a block has no field or a
\* declaration whose length is not a positive integer; so every layout
\* returned has at least one field, every field length > 0 and F >= 1.
C12_RejectsBadFieldLists ==
    /\ (/\ ParseEnded
        /\ NoOpenComment
        /\ \E k \in DOMAIN Active : ~ValidFields(Active[k]))
       => ParseFailed
    /\ pc = "select" =>
        \A k \in DOMAIN structs :
            /\ structs[k].fields # <<>>
            /\ \A j \in DOMAIN structs[k].fields : structs[k].fields[j][2] > 0
            /\ SumLens(structs[k].fields) >= 1

\* C13: an anonymous block is accepted only as the sole definition: alone, it
\* gives one layout named _anonymous_; together with any other definition,
\* named or anonymous, parsing fails.
C13_AnonymousOnlyWhenAlone ==
    (ParseEnded /\ NoOpenComment) =>
        /\ (/\ Len(Active) = 1
            /\ Active[1].name = <<>>
            /\ ValidFields(Active[1]))
           => pc = "select" /\ structs = <<LayoutOf(Active[1])>>
        /\ (/\ Len(Active) >= 2
            /\ \E k \in DOMAIN Active : Active[k].name = <<>>)
           => ParseFailed

\* What parse_structs_config came to: the layouts returned or the error raised.
Outcome ==
    IF pc = "select" THEN [ok |-> TRUE, structs |-> structs]
    ELSE [ok |-> FALSE, err |-> stderr[1]]

\* C15: a "/*" that is never closed removes everything from it to the end of
\* the input, without an error of its own: the config parses as the text
\* before the "/*" does, and no block written after it becomes a layout.
C15_UnclosedCommentRunsToTheEnd ==
    (/\ ParseEnded
     /\ FindPair(config, "/", "*", 1) # 0
     /\ FindPair(config, "*", "/", 1) = 0)
    => Outcome = parse_structs_config(SubSeq(config, 1, FindPair(config, "/", "*", 1) - 1))

====
